---- MODULE Spec2Model ----
(***************************************************************************)
(* circle-plonk: the PLONK-style circuit table (src/circuit.rs) and the    *)
(* lowering of R1CS constraints into it                                    *)
(* (src/from_r1cs/r1cs_constraint_processor.rs).                           *)
(*                                                                         *)
(* Row indices are the 0-based indices of the Rust vectors; a vector is a  *)
(* TLA+ sequence read through At(s, i) == s[i + 1].                        *)
(***************************************************************************)
EXTENDS Integers, Sequences, FiniteSets, TLC

(***************************************************************************)
(* The field M31.  Every intermediate stays within 0 .. P, so no operation *)
(* leaves the 32-bit integers.                                             *)
(***************************************************************************)
P == 2147483647

FAdd(a, b) == IF a >= P - b THEN a - (P - b) ELSE a + b

FSub(a, b) == IF a >= b THEN a - b ELSE P - (b - a)

FNeg(a) == IF a = 0 THEN 0 ELSE P - a

\* x * 2^15 mod P: 2^31 = 1 (mod P), so the top 15 bits wrap around
Shl15(x) == FAdd(x \div 65536, (x % 65536) * 32768)

\* a * b mod P on 15-bit limbs: no partial product reaches 2^31
FMul(a, b) ==
    LET a0 == a % 32768
        a1 == (a \div 32768) % 32768
        a2 == a \div 1073741824
        b0 == b % 32768
        b1 == (b \div 32768) % 32768
        b2 == b \div 1073741824
        c0 == a0 * b0
        c1 == a0 * b1 + a1 * b0
        c2 == a0 * b2 + a1 * b1 + a2 * b0
        c3 == a1 * b2 + a2 * b1
        c4 == a2 * b2
    IN  FAdd(FAdd(FAdd(c0, Shl15(c1)), FAdd(Shl15(Shl15(c2)), c3 * 16384)),
             c4 * 536870912)

RECURSIVE EGcd(_, _, _, _)
EGcd(r0, r1, t0, t1) ==
    IF r1 = 1 THEN t1
    ELSE LET q == r0 \div r1 IN EGcd(r1, r0 - q * r1, t1, t0 - q * t1)

\* inverse() of a non-zero element (None for zero: callers unwrap, so a = 0 is
\* never passed here by an enabled step)
FInv(a) == LET t == EGcd(P, a, 0, 1) IN IF t < 0 THEN t + P ELSE t

\* M31::from(usize)
FromUsize(n) == n % P

(***************************************************************************)
(* Bounds of the model.                                                    *)
(***************************************************************************)
MaxRows == 4

\* field values offered to the operations as selectors, constants and wire values
Vals == {0, 1, 2, P - 1}

(***************************************************************************)
(* Circuit (src/circuit.rs).  The field kind is a history of which          *)
(* operation appended each row; the program does not read it.              *)
(***************************************************************************)
At(s, i) == s[i + 1]

SetAt(s, i, v) == [s EXCEPT ![i + 1] = v]

EmptyMap == [k \in {} |-> 0]

\* Circuit::new
CircuitNew ==
    [num_rows      |-> 1,
     output_wires  |-> <<0>>,
     op            |-> <<1>>,
     idx_a         |-> <<0>>,
     idx_b         |-> <<0>>,
     mult          |-> <<2>>,
     input_maps    |-> <<>>,
     constant_maps |-> EmptyMap,
     kind          |-> <<"boot">>]

get_output_wire(c, idx) == At(c.output_wires, idx)

increase_output_count(c, idx) == [c EXCEPT !.mult = SetAt(@, idx, At(@, idx) + 1)]

\* the pushes common to every operation that appends a row
PushRow(c, value, op, a, b, m, k) ==
    [c EXCEPT !.num_rows     = @ + 1,
              !.output_wires = Append(@, value),
              !.op           = Append(@, op),
              !.idx_a        = Append(@, a),
              !.idx_b        = Append(@, b),
              !.mult         = Append(@, m),
              !.kind         = Append(@, k)]

\* the row formula with the (1 - op) selector of the product left out
RowValue_without_selector(op, wa, wb) ==
    FAdd(FMul(op, FAdd(wa, wb)), FMul(wa, wb))

RowValue(op, wa, wb) ==
    FAdd(FMul(op, FAdd(wa, wb)), FMul(FMul(FSub(1, op), wa), wb))

new_row_kind(c, op, a, b, k) ==
    LET value == RowValue(op, get_output_wire(c, a), get_output_wire(c, b))
        idx   == c.num_rows
        c1    == PushRow(c, value, op, a, b, 0, k)
    IN  [c |-> increase_output_count(increase_output_count(c1, a), b), r |-> idx]

new_row(c, op, a, b) == new_row_kind(c, op, a, b, "row")

\* new_constant that never records the row in constant_maps
new_constant_uncached(c, constant) ==
    IF constant \in DOMAIN c.constant_maps
    THEN [c |-> c, r |-> c.constant_maps[constant]]
    ELSE new_row_kind(c, constant, 1, 0, "const")

new_constant(c, constant) ==
    IF constant \in DOMAIN c.constant_maps
    THEN [c |-> c, r |-> c.constant_maps[constant]]
    ELSE LET n == new_row_kind(c, constant, 1, 0, "const")
         IN  [c |-> [n.c EXCEPT !.constant_maps = (constant :> n.r) @@ @], r |-> n.r]

add(c, a, b) == new_row(c, 1, a, b)

mul(c, a, b) == new_row(c, 0, a, b)

mul_by_constant(c, idx, constant) == new_row(c, constant, idx, 0)

neg(c, idx) == mul_by_constant(c, idx, FNeg(1))

\* zero_test that does not count the helper row's use of row idx
zero_test_uncounted(c, idx) ==
    PushRow(c, 0, 1, idx, c.num_rows, 1, "helper")

zero_test(c, idx) ==
    LET helper == c.num_rows
        c1     == PushRow(c, 0, 1, idx, helper, 1, "helper")
    IN  increase_output_count(c1, idx)

new_input(c, input) ==
    LET idx == c.num_rows
        c1  == PushRow(c, input, 1, idx, 0, 0, "input")
        c2  == [c1 EXCEPT !.input_maps = Append(@, <<idx, input>>)]
    IN  [c |-> increase_output_count(c2, 0), r |-> idx]

\* new_witness that seeds the row's multiplicity with 0 instead of 1
new_witness_unseeded(c, witness) ==
    LET idx == c.num_rows
        c1  == PushRow(c, witness, 1, idx, 0, 0, "witness")
    IN  [c |-> increase_output_count(c1, 0), r |-> idx]

new_witness(c, witness) ==
    LET idx == c.num_rows
        c1  == PushRow(c, witness, 1, idx, 0, 1, "witness")
    IN  [c |-> increase_output_count(c1, 0), r |-> idx]

\* usize::next_power_of_two
RECURSIVE NextPow2From(_, _)
NextPow2From(n, p) == IF p >= n THEN p ELSE NextPow2From(n, 2 * p)

next_power_of_two(n) == NextPow2From(n, 1)

RECURSIVE PadRows(_, _)
PadRows(c, todo) ==
    IF todo = 0 THEN c
    ELSE LET c1 == PushRow(c, 0, 0, 0, 0, 0, "pad")
         IN  PadRows(increase_output_count(increase_output_count(c1, 0), 0), todo - 1)

pad_to_next_power_of_2(c) == PadRows(c, next_power_of_two(c.num_rows))

\* one row of the loop of is_constraint_satisfied
RowHolds(c, i) ==
    LET w_a == get_output_wire(c, At(c.idx_a, i))
        w_b == get_output_wire(c, At(c.idx_b, i))
        w_c == At(c.output_wires, i)
        s1  == FMul(At(c.op, i), FAdd(w_a, w_b))
        s2  == FAdd(s1, FMul(FMul(FSub(1, At(c.op, i)), w_a), w_b))
    IN  FSub(s2, w_c) = 0

is_constraint_satisfied(c) == \A i \in 0 .. c.num_rows - 1 : RowHolds(c, i)

RECURSIVE FSum(_, _, _)
\* sum over i in lo .. hi of f[i], in the field
FSum(f, lo, hi) == IF lo > hi THEN 0 ELSE FAdd(f[lo], FSum(f, lo + 1, hi))

Denominator(id, v, alpha, z) == FSub(FAdd(FromUsize(id), FMul(alpha, v)), z)

\* the denominators handed to batch_inverse
LogupDenominators(c, inputs, alpha, z) ==
    {Denominator(At(c.idx_a, i), get_output_wire(c, At(c.idx_a, i)), alpha, z) :
        i \in 0 .. c.num_rows - 1}
    \cup {Denominator(At(c.idx_b, i), get_output_wire(c, At(c.idx_b, i)), alpha, z) :
        i \in 0 .. c.num_rows - 1}
    \cup {Denominator(i, get_output_wire(c, i), alpha, z) : i \in 0 .. c.num_rows - 1}
    \cup {Denominator(inputs[j][1], inputs[j][2], alpha, z) : j \in 1 .. Len(inputs)}

\* is_logup_satisfied that leaves the external supply out of the sum
is_logup_satisfied_rows_only(c, inputs, alpha, z) ==
    LET rowterm == [i \in 0 .. c.num_rows - 1 |->
            LET ia == At(c.idx_a, i)
                ib == At(c.idx_b, i)
                g0 == FInv(Denominator(ia, get_output_wire(c, ia), alpha, z))
                g1 == FInv(Denominator(ib, get_output_wire(c, ib), alpha, z))
                g2 == FInv(Denominator(i, get_output_wire(c, i), alpha, z))
            IN  FSub(FAdd(g0, g1), FMul(FromUsize(At(c.mult, i)), g2))]
    IN  FSum(rowterm, 0, c.num_rows - 1) = 0

is_logup_satisfied(c, inputs, alpha, z) ==
    LET rowterm == [i \in 0 .. c.num_rows - 1 |->
            LET ia == At(c.idx_a, i)
                ib == At(c.idx_b, i)
                g0 == FInv(Denominator(ia, get_output_wire(c, ia), alpha, z))
                g1 == FInv(Denominator(ib, get_output_wire(c, ib), alpha, z))
                g2 == FInv(Denominator(i, get_output_wire(c, i), alpha, z))
            IN  FSub(FAdd(g0, g1), FMul(FromUsize(At(c.mult, i)), g2))]
        inpterm == [j \in 1 .. Len(inputs) |->
            FInv(Denominator(inputs[j][1], inputs[j][2], alpha, z))]
    IN  FSub(FSum(rowterm, 0, c.num_rows - 1), FSum(inpterm, 1, Len(inputs))) = 0

(***************************************************************************)
(* R1CS lowering (src/from_r1cs/r1cs_constraint_processor.rs).             *)
(* A linear combination is a sequence of terms <<coeff, idx>>; the          *)
(* processors thread the pair st = [c |-> circuit, al |-> allocator].      *)
(***************************************************************************)
\* The statements of a processor run in order: each one is a definition that
\* takes the results of the statements before it as parameters and hands its
\* own result to the definition of the next statement.  After(first, rest) has
\* the value of rest and evaluates first before it, as the source does.
After(first, rest) == IF first = first THEN rest ELSE rest

\* the row and circuit a Circuit operation returns, with the allocator al
WithAl(n, al) == [c |-> n.c, al |-> al, r |-> n.r]

\* to_m31: canonical representative of an FM31 element, reduced by M31::reduce
to_m31(v) == v % P

\* OnDemandAllocator::new
AllocatorNew(assignments, num_input) ==
    [assignments |-> assignments, mapping |-> EmptyMap, num_input |-> num_input]

is_allocated(al, idx) == idx \in DOMAIN al.mapping

\* OnDemandAllocator::get, after the new row n: self.mapping.insert(idx, n.r)
Allocated(n, al, idx) ==
    After(n, [c |-> n.c, al |-> [al EXCEPT !.mapping = (idx :> n.r) @@ @], r |-> n.r])

\* get that makes a new row without looking the variable up in the mapping
get_without_lookup(st, idx) ==
    IF idx < st.al.num_input
    THEN Allocated(new_input(st.c, At(st.al.assignments, idx)), st.al, idx)
    ELSE Allocated(new_witness(st.c, At(st.al.assignments, idx)), st.al, idx)

\* OnDemandAllocator::get
get(st, idx) ==
    IF idx \in DOMAIN st.al.mapping
    THEN [c |-> st.c, al |-> st.al, r |-> st.al.mapping[idx]]
    ELSE IF idx < st.al.num_input
         THEN Allocated(new_input(st.c, At(st.al.assignments, idx)), st.al, idx)
         ELSE Allocated(new_witness(st.c, At(st.al.assignments, idx)), st.al, idx)

\* OnDemandAllocator::set_allocated; the assert!(!is_allocated(idx)) holds at
\* both call sites, which test is_allocated first
set_allocated(al, idx, allocated) == [al EXCEPT !.mapping = (idx :> allocated) @@ @]

\* the comparison sort on the variable index (an insertion sort: what
\* sort_unstable_by does on slices this short)
RECURSIVE InsertTerm(_, _)
InsertTerm(sorted, t) ==
    IF sorted = <<>> THEN <<t>>
    ELSE IF t[2] < sorted[Len(sorted)][2]
         THEN Append(InsertTerm(SubSeq(sorted, 1, Len(sorted) - 1), t), sorted[Len(sorted)])
         ELSE Append(sorted, t)

RECURSIVE sort_linear_combinations(_)
sort_linear_combinations(lin_com) ==
    IF lin_com = <<>> THEN <<>>
    ELSE InsertTerm(sort_linear_combinations(SubSeq(lin_com, 1, Len(lin_com) - 1)),
                    lin_com[Len(lin_com)])

RECURSIVE ConstantPart(_)
\* the k of reduce_coefs and get_linear_combination_type: the sum of the
\* coefficients on variable 0
ConstantPart(lc) ==
    IF lc = <<>> THEN 0
    ELSE LET t == lc[Len(lc)]
             k == ConstantPart(SubSeq(lc, 1, Len(lc) - 1))
         IN  IF t[2] = 0 THEN FAdd(k, t[1]) ELSE k

\* the cs of reduce_coefs: (idx, coeff) of the terms kept, in order
KeptTerms(lc) ==
    LET keep(t) == t[2] # 0 /\ t[1] # 0
        sel     == SelectSeq(lc, keep)
    IN  [i \in 1 .. Len(sel) |-> <<sel[i][2], sel[i][1]>>]

\* if !coeff.is_one() { v = circuit.mul_by_constant(v, to_m31(&coeff)); }
Scaled(g, coeff) ==
    After(g, IF coeff # 1
             THEN WithAl(mul_by_constant(g.c, g.r, to_m31(coeff)), g.al)
             ELSE g)

\* Scaled, except that a row holding 0 is not multiplied
ScaledUnlessZero(g, coeff) ==
    After(g, IF coeff # 1 /\ get_output_wire(g.c, g.r) # 0
             THEN WithAl(mul_by_constant(g.c, g.r, to_m31(coeff)), g.al)
             ELSE g)

\* a term whose variable holds 0 is not multiplied by its coefficient
TermRow_skipping_zero(st, entry) == ScaledUnlessZero(get(st, entry[1]), entry[2])

\* one entry of cs: the row of the variable, times its coefficient
TermRow(st, entry) == Scaled(get(st, entry[1]), entry[2])

RECURSIVE SumTerms(_, _, _, _)
RECURSIVE SumStep(_, _, _, _)
RECURSIVE SumNext(_, _, _, _)
\* the loop over cs.iter().skip(1)
SumTerms(st, sum, cs, i) ==
    IF i > Len(cs) THEN [c |-> st.c, al |-> st.al, r |-> sum]
    ELSE SumStep(TermRow(st, cs[i]), sum, cs, i)

\* sum = circuit.add(sum, v)
SumStep(v, sum, cs, i) == After(v, SumNext(add(v.c, sum, v.r), v.al, cs, i))

\* the next entry of cs
SumNext(s, al, cs, i) == After(s, SumTerms([c |-> s.c, al |-> al], s.r, cs, i + 1))

\* sum = circuit.add(sum, constant)
AddConstantRow(constant, rest) ==
    After(constant, WithAl(add(constant.c, rest.r, constant.r), rest.al))

\* if !k.is_zero() { ... }
AddConstant(rest, k) ==
    After(rest, IF k # 0
                THEN AddConstantRow(new_constant(rest.c, to_m31(k)), rest)
                ELSE rest)

\* reduce_coefs from the loop over cs.iter().skip(1) on
ReduceRest(first, k, cs) ==
    After(first,
          AddConstant(SumTerms([c |-> first.c, al |-> first.al], first.r, cs, 2), k))

\* reduce_coefs after k and cs have been computed
ReduceKept(st, k, cs) ==
    IF Len(cs) = 0 THEN [c |-> st.c, al |-> st.al, r |-> 0]
    ELSE ReduceRest(TermRow(st, cs[1]), k, cs)

reduce_coefs(st, lc) == ReduceKept(st, ConstantPart(lc), KeptTerms(lc))

\* circuit.zero_test(r)
ZeroTested(r) == After(r, [c |-> zero_test(r.c, r.r), al |-> r.al])

process_r1cs_addition_constraint(st, lc) == ZeroTested(reduce_coefs(st, lc))

\* c.len() == 1 && !allocator.is_allocated(c[0].1)
SingleUnallocated(al, lc) == Len(lc) = 1 /\ ~is_allocated(al, lc[1][2])

\* sum = circuit.add(v, c_neg); circuit.zero_test(sum)
DifferenceSum(c_neg, v, al) ==
    After(c_neg, ZeroTested(WithAl(add(c_neg.c, v, c_neg.r), al)))

\* c_neg = circuit.neg(c)
Difference(rc, v) == After(rc, DifferenceSum(neg(rc.c, rc.r), v, rc.al))

\* the generic emission of the equality processor: zero_test(v - c)
EmitDifference(st, v, lc) == Difference(reduce_coefs(st, lc), v)

\* allocator.set_allocated(c[0].1, v) with the row m as v
Bound(m, al, idx) == After(m, [c |-> m.c, al |-> set_allocated(al, idx, m.r)])

\* the tail shared by the two inlining emissions: bind c[0].1 to v / c[0].0
EmitInline(st, v, lc) ==
    IF lc[1][1] # 1
    THEN Bound(mul_by_constant(st.c, v, to_m31(FInv(lc[1][1]))), st.al, lc[1][2])
    ELSE [c |-> st.c, al |-> set_allocated(st.al, lc[1][2], v)]

\* lines 161-171, v being the row of constant * a_or_b
EqualEmit(v, lc) ==
    After(v, IF SingleUnallocated(v.al, lc)
             THEN EmitInline([c |-> v.c, al |-> v.al], v.r, lc)
             ELSE EmitDifference([c |-> v.c, al |-> v.al], v.r, lc))

\* lines 156-171, after the choice of (a_or_b, constant, c)
EqualOrdered(st, a_or_b, constant, lc) ==
    EqualEmit(Scaled(reduce_coefs(st, a_or_b), constant), lc)

process_r1cs_equal_constraint(st, a_or_b0, constant0, c0) ==
    IF SingleUnallocated(st.al, c0) THEN EqualOrdered(st, a_or_b0, constant0, c0)
    ELSE IF SingleUnallocated(st.al, a_or_b0)
         THEN EqualOrdered(st, c0, FInv(constant0), a_or_b0)
         ELSE EqualOrdered(st, a_or_b0, constant0, c0)

\* lines 250-252, a_mul_b being the row of a * b
MulDifference(a_mul_b, cr, al) ==
    After(a_mul_b, DifferenceSum(neg(a_mul_b.c, cr), a_mul_b.r, al))

\* lines 249-252, rc being the row of c
MulGeneric(rc, ar, br) == After(rc, MulDifference(mul(rc.c, ar, br), rc.r, rc.al))

\* lines 242-245, v being the row of a * b
MulInline(v, al, lc) == After(v, EmitInline([c |-> v.c, al |-> al], v.r, lc))

\* lines 240-253, ar and b being the rows of a and b
MulEmit(ar, b, lc) ==
    After(b, IF SingleUnallocated(b.al, lc)
             THEN MulInline(mul(b.c, ar, b.r), b.al, lc)
             ELSE MulGeneric(reduce_coefs([c |-> b.c, al |-> b.al], lc), ar, b.r))

\* lines 238-253, a being the row of a
MulSecond(a, lb, lc) ==
    After(a, MulEmit(a.r, reduce_coefs([c |-> a.c, al |-> a.al], lb), lc))

process_r1cs_multiplication_constraint(st, la, lb, lc) ==
    MulSecond(reduce_coefs(st, la), lb, lc)

get_linear_combination_type(row) ==
    LET k == ConstantPart(row)
        n == Len(SelectSeq(row, LAMBDA t : t[2] # 0))
    IN  IF n > 0 THEN [tag |-> "VARIABLE", k |-> 0]
        ELSE IF k # 0 THEN [tag |-> "CONSTANT", k |-> k]
        ELSE [tag |-> "NULLABLE", k |-> 0]

\* which branch of the loop body of generate_circuit takes the constraint
Branch(a, b) ==
    LET lct_a == get_linear_combination_type(a)
        lct_b == get_linear_combination_type(b)
    IN  IF lct_a.tag = "NULLABLE" \/ lct_b.tag = "NULLABLE" THEN "addition"
        ELSE IF lct_a.tag = "CONSTANT" THEN "equal_a"
        ELSE IF lct_b.tag = "CONSTANT" THEN "equal_b"
        ELSE "multiplication"

\* the loop body of generate_circuit, on a constraint the branch br takes
ProcessBranch(st, br, a, b, c) ==
    IF br = "addition"
    THEN process_r1cs_addition_constraint(st, sort_linear_combinations(c))
    ELSE IF br = "equal_a"
    THEN process_r1cs_equal_constraint(st, b, get_linear_combination_type(a).k, c)
    ELSE IF br = "equal_b"
    THEN process_r1cs_equal_constraint(st, a, get_linear_combination_type(b).k, c)
    ELSE process_r1cs_multiplication_constraint(st, sort_linear_combinations(a),
             sort_linear_combinations(b), sort_linear_combinations(c))

\* the loop body of generate_circuit
ProcessConstraint(st, a, b, c) == ProcessBranch(st, Branch(a, b), a, b, c)

RECURSIVE AllocateInstances(_, _)
RECURSIVE AllocateNext(_, _)
\* for i in 0..cs.num_instance_variables() { allocator.get(&mut output, i); }
AllocateInstances(st, i) ==
    IF i >= st.al.num_input THEN st
    ELSE AllocateNext(get(st, i), i)

\* the next instance variable
AllocateNext(g, i) == After(g, AllocateInstances([c |-> g.c, al |-> g.al], i + 1))

(***************************************************************************)
(* Inputs of generate_circuit offered to the model.  Variable 0 is the     *)
(* constant one, variables 1 .. NumInst - 1 are instance variables, the    *)
(* NumWit variables after them are witness variables.                      *)
(***************************************************************************)
NumInst == 2

NumWit == 2

MaxConstraints == 2

\* a further constraint is taken only while the circuit has at most this many rows
MaxLoopRows == 6

NumVars == NumInst + NumWit

\* values the assignment gives to the witness variables
XVals == {0, 1, 2}

\* values the assignment gives to the instance variables other than variable 0
InstVals == {2}

\* instance_assignment followed by witness_assignment, variable 0 assigned 1
Assignments ==
    {x \in [1 .. NumVars -> XVals \cup InstVals \cup {1}] :
        /\ x[1] = 1
        /\ \A i \in 2 .. NumInst : x[i] \in InstVals
        /\ \A i \in NumInst + 1 .. NumVars : x[i] \in XVals}

\* assignments.resize(num_variables, M31::zero()) of INDEX mode
ZeroAssignment == [i \in 1 .. NumVars |-> 0]

\* the last instance variable and the first two witness variables
I1 == NumInst - 1

W1 == NumInst

W2 == NumInst + 1

\* rows of the matrices A and B: empty, a constant 1, a constant 2, a single
\* witness variable, and an unsorted combination of a witness variable, an
\* instance variable and a constant
PoolAB ==
    {<<>>,
     <<<<1, 0>>>>,
     <<<<2, 0>>>>,
     <<<<1, W1>>>>,
     <<<<1, W2>>, <<P - 1, I1>>, <<2, 0>>>>}

\* rows of the matrix C: a single witness variable with coefficient 1 and with
\* another coefficient, a single instance variable, the constant 1, and an
\* unsorted combination
PoolC ==
    {<<<<1, W1>>>>,
     <<<<2, W2>>>>,
     <<<<1, I1>>>>,
     <<<<1, 0>>>>,
     <<<<1, W2>>, <<P - 1, I1>>, <<2, 0>>>>}

(***************************************************************************)
(* State.                                                                  *)
(***************************************************************************)
VARIABLES
    circuit,    \* the Circuit under construction (PROVE mode in generate_circuit)
    last,       \* the operation performed last and the row index it returned
    pc,         \* "api": Circuit operations called directly; else the position
                \* of generate_circuit: "start", "loop", "done", "tampered"
    allocator,  \* the OnDemandAllocator of generate_circuit
    matrices,   \* the constraints <<a, b, c>> generate_circuit has consumed so far
    index_run,  \* circuit and allocator of generate_circuit in INDEX mode on
                \* the same matrices
    reader      \* witness_read: the byte stream, the position in it, the
                \* locals num_witnesses and witnesses, and the value returned

vars == <<circuit, last, pc, allocator, matrices, index_run, reader>>

NoCall == [op |-> "new", arg |-> 0, r |-> 0]

NoRun == [c |-> CircuitNew, al |-> AllocatorNew(<<>>, 0)]

\* no .wtns stream is being read
NoStream ==
    [stream |-> <<>>, pos |-> 0, num_witnesses |-> <<>>, witnesses |-> <<>>,
     result |-> [tag |-> "none"]]

Init ==
    /\ circuit = CircuitNew
    /\ last = NoCall
    /\ pc = "api"
    /\ allocator = NoRun.al
    /\ matrices = <<>>
    /\ index_run = NoRun
    /\ reader = NoStream

Rows == 0 .. circuit.num_rows - 1

Room == circuit.num_rows < MaxRows

Did(name, arg, res) ==
    /\ pc = "api"
    /\ circuit' = res.c
    /\ last' = [op |-> name, arg |-> arg, r |-> res.r]
    /\ UNCHANGED <<pc, allocator, matrices, index_run, reader>>

NewRow ==
    /\ Room
    /\ \E op \in Vals, a \in Rows, b \in Rows :
          Did("new_row", <<op, a, b>>, new_row(circuit, op, a, b))

Add ==
    /\ Room
    /\ \E a \in Rows, b \in Rows : Did("add", <<a, b>>, add(circuit, a, b))

Mul ==
    /\ Room
    /\ \E a \in Rows, b \in Rows : Did("mul", <<a, b>>, mul(circuit, a, b))

MulByConstant ==
    /\ Room
    /\ \E a \in Rows, k \in Vals :
          Did("mul_by_constant", <<a, k>>, mul_by_constant(circuit, a, k))

Neg ==
    /\ Room
    /\ \E a \in Rows : Did("neg", a, neg(circuit, a))

\* new_constant reads row 1 when it appends: with a single row that read is out
\* of range and the call panics
NewConstant ==
    \E k \in Vals :
        /\ k \in DOMAIN circuit.constant_maps \/ (Room /\ 1 \in Rows)
        /\ Did("new_constant", k, new_constant(circuit, k))

NewInput ==
    /\ Room
    /\ \E v \in Vals : Did("new_input", v, new_input(circuit, v))

NewWitness ==
    /\ Room
    /\ \E v \in Vals : Did("new_witness", v, new_witness(circuit, v))

ZeroTest ==
    /\ Room
    /\ \E i \in Rows :
          Did("zero_test", i, [c |-> zero_test(circuit, i), r |-> circuit.num_rows])

PadToNextPowerOf2 ==
    /\ circuit.num_rows <= MaxRows
    /\ last.op # "pad_to_next_power_of_2"
    /\ Did("pad_to_next_power_of_2", circuit.num_rows,
           [c |-> pad_to_next_power_of_2(circuit), r |-> 0])

Next ==
    \/ NewRow
    \/ Add
    \/ Mul
    \/ MulByConstant
    \/ Neg
    \/ NewConstant
    \/ NewInput
    \/ NewWitness
    \/ ZeroTest
    \/ PadToNextPowerOf2

Spec == Init /\ [][Next]_vars

(***************************************************************************)
(* generate_circuit, one step per loop iteration (specification SpecGen).  *)
(***************************************************************************)
\* lines 84-100: the assignments are copied, the allocator and the circuit made
InitGen ==
    /\ circuit = CircuitNew
    /\ last = [op |-> "generate_circuit", arg |-> 0, r |-> 0]
    /\ pc = "start"
    /\ \E x \in Assignments : allocator = AllocatorNew(x, NumInst)
    /\ matrices = <<>>
    /\ index_run = [c |-> CircuitNew, al |-> AllocatorNew(ZeroAssignment, NumInst)]
    /\ reader = NoStream

\* the PROVE-mode circuit and allocator after a step that leaves them as st
Produces(st) == circuit' = st.c /\ allocator' = st.al

\* lines 102-104: the instance variables are allocated
AllocateInstanceVariables ==
    /\ pc = "start"
    /\ Produces(AllocateInstances([c |-> circuit, al |-> allocator], 0))
    /\ index_run' = AllocateInstances(index_run, 0)
    /\ pc' = "loop"
    /\ UNCHANGED <<last, matrices, reader>>

\* one iteration of the loop over the matrices, on a constraint the branch br takes
Iteration(br, maxc) ==
    /\ pc = "loop"
    /\ Len(matrices) < maxc
    /\ circuit.num_rows <= MaxLoopRows
    /\ \E a \in PoolAB, b \in PoolAB, c \in PoolC :
          /\ Branch(a, b) = br
          /\ Produces(ProcessConstraint([c |-> circuit, al |-> allocator], a, b, c))
          /\ index_run' = ProcessConstraint(index_run, a, b, c)
          /\ matrices' = Append(matrices, <<a, b, c>>)
    /\ UNCHANGED <<last, pc, reader>>

AdditionConstraint == Iteration("addition", MaxConstraints)

EqualConstraintA == Iteration("equal_a", MaxConstraints)

EqualConstraintB == Iteration("equal_b", MaxConstraints)

MultiplicationConstraint == Iteration("multiplication", MaxConstraints)

\* the matrices are exhausted: Ok(output)
Return ==
    /\ pc = "loop"
    /\ pc' = "done"
    /\ UNCHANGED <<circuit, last, allocator, matrices, index_run, reader>>

NextGen ==
    \/ AllocateInstanceVariables
    \/ AdditionConstraint
    \/ EqualConstraintA
    \/ EqualConstraintB
    \/ MultiplicationConstraint
    \/ Return

SpecGen == InitGen /\ [][NextGen]_vars

(***************************************************************************)
(* generate_circuit followed by an overwrite of one output wire             *)
(* (specification SpecTamper).                                             *)
(***************************************************************************)
MaxTamperConstraints == 1

\* values written over an output wire
TamperVals == {0, 1, 2}

\* output_wires[k] = v on the returned circuit, for a row k > 1 with mult[k] >= 1
Tamper ==
    /\ pc = "done"
    /\ \E k \in 2 .. circuit.num_rows - 1, v \in TamperVals :
          /\ At(circuit.mult, k) >= 1
          /\ v # At(circuit.output_wires, k)
          /\ circuit' = [circuit EXCEPT !.output_wires = SetAt(@, k, v)]
          /\ last' = [op |-> "tamper", arg |-> k, r |-> At(circuit.output_wires, k)]
    /\ pc' = "tampered"
    /\ UNCHANGED <<allocator, matrices, index_run, reader>>

NextTamper ==
    \/ AllocateInstanceVariables
    \/ Iteration("addition", MaxTamperConstraints)
    \/ Iteration("equal_a", MaxTamperConstraints)
    \/ Iteration("equal_b", MaxTamperConstraints)
    \/ Iteration("multiplication", MaxTamperConstraints)
    \/ Return
    \/ Tamper

SpecTamper == InitGen /\ [][NextTamper]_vars

(***************************************************************************)
(* The public functions of the processor called directly, on linear        *)
(* combinations that need not come out of to_matrices (specification        *)
(* SpecCalls).                                                             *)
(***************************************************************************)
MaxCallRows == 3

\* the linear combinations handed to reduce_coefs and get_linear_combination_type:
\* empty, constant only, a zero coefficient, a repeated variable, several terms
PoolLC ==
    {<<>>, <<<<2, 0>>>>, <<<<1, 0>>, <<P - 1, 0>>>>, <<<<1, W1>>>>, <<<<2, I1>>>>,
     <<<<0, W1>>>>, <<<<0, W2>>, <<2, 0>>>>, <<<<1, W1>>, <<2, W1>>>>,
     <<<<1, W2>>, <<P - 1, I1>>, <<2, 0>>>>}

\* reduce_coefs(&mut circuit, &mut allocator, &lc)
CallReduceCoefs ==
    /\ pc = "loop"
    /\ circuit.num_rows <= MaxCallRows
    /\ \E lc \in PoolLC :
          LET res == reduce_coefs([c |-> circuit, al |-> allocator], lc)
          IN  /\ Produces(res)
              /\ last' = [op |-> "reduce_coefs", arg |-> lc, r |-> res.r]
    /\ UNCHANGED <<pc, matrices, index_run, reader>>

\* get_linear_combination_type(&row)
CallGetLinearCombinationType ==
    /\ pc = "loop"
    /\ circuit.num_rows <= MaxCallRows
    /\ \E row \in PoolLC :
          last' = [op |-> "get_linear_combination_type", arg |-> row,
                   r |-> get_linear_combination_type(row)]
    /\ UNCHANGED <<circuit, pc, allocator, matrices, index_run, reader>>

NextCalls ==
    \/ AllocateInstanceVariables
    \/ CallReduceCoefs
    \/ CallGetLinearCombinationType
    \/ Iteration("addition", MaxTamperConstraints)
    \/ Iteration("equal_a", MaxTamperConstraints)
    \/ Iteration("equal_b", MaxTamperConstraints)
    \/ Iteration("multiplication", MaxTamperConstraints)

SpecCalls == InitGen /\ [][NextCalls]_vars

(***************************************************************************)
(* witness_read (src/from_r1cs/circom/mod.rs), one step per read           *)
(* (specification SpecWtns).  The stream is a sequence of bytes; an        *)
(* integer read from it is kept as its little-endian bytes, a u32 or u64   *)
(* not fitting the integers of the model.                                  *)
(***************************************************************************)
MaxWitnesses == 2

RECURSIVE LittleEndian(_, _)
\* the w little-endian bytes of n
LittleEndian(n, w) ==
    IF w = 0 THEN <<>> ELSE <<n % 256>> \o LittleEndian(n \div 256, w - 1)

\* x as u32 of a u64 x: the four low bytes
AsU32(bytes) == SubSeq(bytes, 1, 4)

\* FM31::from(u32): the u32 reduced modulo P, 2^31 being 1 modulo P
FM31FromU32(b) ==
    FAdd((b[1] + 256 * b[2] + 65536 * b[3] + 16777216 * (b[4] % 128)) % P,
         b[4] \div 128)

RECURSIVE TimesEight(_, _)
\* 8 * x on little-endian bytes, carry being carried into the next byte
TimesEight(bytes, carry) ==
    IF bytes = <<>> THEN <<>>
    ELSE <<(8 * Head(bytes) + carry) % 256>>
         \o TimesEight(Tail(bytes), (8 * Head(bytes) + carry) \div 256)

\* 8 * num_witnesses as u64
SectionLength(num_witnesses) == TimesEight(num_witnesses \o <<0, 0, 0, 0>>, 0)

\* the witness values offered to the model: 3, 2^32 - 1 and 2^32
WtnsVals ==
    {LittleEndian(3, 8), <<255, 255, 255, 255, 0, 0, 0, 0>>, <<0, 0, 0, 0, 1, 0, 0, 0>>}

\* the number of bytes a stream may be short of
Cuts == {0, 5}

\* for each fixed header field, the value witness_read accepts and one it rejects
MagicOpts == {<<119, 116, 110, 115>>, <<119, 116, 110, 114>>}

VersionOpts == {LittleEndian(2, 4), <<2, 0, 0, 128>>}

NumSectionsOpts == {LittleEndian(2, 4), LittleEndian(3, 4)}

IdSection1Opts == {LittleEndian(1, 4), LittleEndian(2, 4)}

IdSection1LengthOpts == {LittleEndian(16, 8), <<16, 0, 0, 0, 1, 0, 0, 0>>}

N8Opts == {LittleEndian(8, 4), LittleEndian(4, 4)}

FrQOpts == {LittleEndian(P, 8), LittleEndian(P - 1, 8)}

IdSection2Opts == {LittleEndian(2, 4), LittleEndian(1, 4)}

IdSection2LengthOpts(n) == {LittleEndian(8 * n, 8), LittleEndian(8 * n + 1, 8)}

RECURSIVE Flatten(_)
Flatten(ss) == IF ss = <<>> THEN <<>> ELSE Head(ss) \o Flatten(Tail(ss))

\* full without its last cut bytes
Short(full, cut) == SubSeq(full, 1, Len(full) - cut)

\* the streams that declare n witnesses and hold n values
StreamsOf(n) ==
    {Short(m \o v \o ns \o i1 \o l1 \o n8 \o q \o LittleEndian(n, 4) \o i2 \o l2
           \o Flatten(ws), cut) :
        m \in MagicOpts, v \in VersionOpts, ns \in NumSectionsOpts,
        i1 \in IdSection1Opts, l1 \in IdSection1LengthOpts, n8 \in N8Opts,
        q \in FrQOpts, i2 \in IdSection2Opts, l2 \in IdSection2LengthOpts(n),
        ws \in [1 .. n -> WtnsVals], cut \in Cuts}

\* the streams offered to witness_read
Streams == UNION {StreamsOf(n) : n \in 0 .. MaxWitnesses}

InitWtns ==
    /\ circuit = CircuitNew
    /\ last = [op |-> "witness_read", arg |-> 0, r |-> 0]
    /\ pc = "magic"
    /\ allocator = NoRun.al
    /\ matrices = <<>>
    /\ index_run = NoRun
    /\ \E s \in Streams : reader = [NoStream EXCEPT !.stream = s]

\* read_exact can fill n bytes
Available(n) == reader.pos + n <= Len(reader.stream)

\* the next n bytes of the stream
Take(n) == SubSeq(reader.stream, reader.pos + 1, reader.pos + n)

\* return Err(..)
Fail(kind) ==
    /\ reader' = [reader EXCEPT !.result = [tag |-> "Err", kind |-> kind]]
    /\ pc' = "returned"

\* a header field is compared on its four low bytes only
Expect_low_bytes(here, n, want, next) ==
    /\ pc = here
    /\ IF ~Available(n) THEN Fail("UnexpectedEof")
       ELSE IF SubSeq(Take(n), 1, 4) # SubSeq(want, 1, 4) THEN Fail("InvalidData")
       ELSE reader' = [reader EXCEPT !.pos = @ + n] /\ pc' = next
    /\ UNCHANGED <<circuit, last, allocator, matrices, index_run>>

\* read n bytes (the ? returns the error of a short read) and return
\* InvalidData unless they are the bytes of want
Expect(here, n, want, next) ==
    /\ pc = here
    /\ IF ~Available(n) THEN Fail("UnexpectedEof")
       ELSE IF Take(n) # want THEN Fail("InvalidData")
       ELSE reader' = [reader EXCEPT !.pos = @ + n] /\ pc' = next
    /\ UNCHANGED <<circuit, last, allocator, matrices, index_run>>

ReadMagic == Expect("magic", 4, <<119, 116, 110, 115>>, "version")

ReadVersion == Expect("version", 4, LittleEndian(2, 4), "num_sections")

ReadNumSections == Expect("num_sections", 4, LittleEndian(2, 4), "id_section1")

ReadIdSection1 == Expect("id_section1", 4, LittleEndian(1, 4), "id_section1_length")

ReadIdSection1Length == Expect("id_section1_length", 8, LittleEndian(16, 8), "n8")

ReadN8 == Expect("n8", 4, LittleEndian(8, 4), "fr_q")

ReadFrQ == Expect("fr_q", 8, LittleEndian(P, 8), "num_witnesses")

ReadNumWitnesses ==
    /\ pc = "num_witnesses"
    /\ IF ~Available(4) THEN Fail("UnexpectedEof")
       ELSE /\ reader' = [reader EXCEPT !.pos = @ + 4, !.num_witnesses = Take(4)]
            /\ pc' = "id_section2"
    /\ UNCHANGED <<circuit, last, allocator, matrices, index_run>>

ReadIdSection2 == Expect("id_section2", 4, LittleEndian(2, 4), "id_section2_length")

ReadIdSection2Length ==
    Expect("id_section2_length", 8, SectionLength(reader.num_witnesses), "witnesses")

\* the loop counter has not reached num_witnesses
MoreWitnesses == LittleEndian(Len(reader.witnesses), 4) # reader.num_witnesses

\* witnesses.push(FM31::from(reader.read_u64::<LittleEndian>()? as u32))
ReadWitness ==
    /\ pc = "witnesses"
    /\ MoreWitnesses
    /\ IF ~Available(8) THEN Fail("UnexpectedEof")
       ELSE /\ reader' = [reader EXCEPT !.pos = @ + 8,
                              !.witnesses = Append(@, FM31FromU32(AsU32(Take(8))))]
            /\ pc' = pc
    /\ UNCHANGED <<circuit, last, allocator, matrices, index_run>>

\* Ok(witnesses)
ReturnWitnesses ==
    /\ pc = "witnesses"
    /\ ~MoreWitnesses
    /\ reader' = [reader EXCEPT !.result = [tag |-> "Ok", witnesses |-> reader.witnesses]]
    /\ pc' = "returned"
    /\ UNCHANGED <<circuit, last, allocator, matrices, index_run>>

NextWtns ==
    \/ ReadMagic
    \/ ReadVersion
    \/ ReadNumSections
    \/ ReadIdSection1
    \/ ReadIdSection1Length
    \/ ReadN8
    \/ ReadFrQ
    \/ ReadNumWitnesses
    \/ ReadIdSection2
    \/ ReadIdSection2Length
    \/ ReadWitness
    \/ ReturnWitnesses

SpecWtns == InitWtns /\ [][NextWtns]_vars

(***************************************************************************)
(* Properties of the Circuit operations (specification Spec).              *)
(***************************************************************************)
Out(i) == At(circuit.output_wires, i)

IdxA(i) == At(circuit.idx_a, i)

IdxB(i) == At(circuit.idx_b, i)

Kind(i) == At(circuit.kind, i)

\* the row invariant as the specification writes it:
\* out[i] = op[i]*(out[idx_a[i]] + out[idx_b[i]]) + (1 - op[i])*out[idx_a[i]]*out[idx_b[i]]
RowInvariant(i) ==
    LET o == At(circuit.op, i)
        x == Out(IdxA(i))
        y == Out(IdxB(i))
    IN  Out(i) = FAdd(FMul(o, FAdd(x, y)), FMul(FSub(1, o), FMul(x, y)))

HelperRows == {h \in Rows : Kind(h) = "helper"}

AllZeroTestsPass == \A h \in HelperRows : Out(IdxA(h)) = 0

C3_Rows ==
    /\ \A i \in Rows \ HelperRows : RowInvariant(i)
    /\ \A h \in HelperRows : RowInvariant(h) <=> Out(IdxA(h)) = 0
    /\ is_constraint_satisfied(circuit) <=> AllZeroTestsPass

C3_PadStep ==
    last'.op = "pad_to_next_power_of_2" =>
        (is_constraint_satisfied(circuit') <=> is_constraint_satisfied(circuit))

\* C3: every row satisfies the row invariant, except that the helper row of
\* zero_test(t) satisfies it exactly when out[t] = 0; is_constraint_satisfied is
\* true iff every zero-tested row holds 0; padding does not change its result.
C3_RowInvariant == [](C3_Rows) /\ [][C3_PadStep]_vars

\* a padded circuit with a zero_test on a non-zero row, which the local check rejects
C3_Witness ==
    /\ last.op = "pad_to_next_power_of_2"
    /\ \E h \in HelperRows : Out(IdxA(h)) # 0 /\ ~RowInvariant(h)
    /\ \E i \in Rows : Kind(i) = "witness" /\ Out(i) # 0
    /\ ~is_constraint_satisfied(circuit)

\* number of input slots (idx_a and idx_b counted separately) of rows in S that name row i
SlotRefs(S, i) ==
    Cardinality({j \in S : IdxA(j) = i}) + Cardinality({j \in S : IdxB(j) = i})

LaterRows(i) == {j \in Rows : j > i}

\* C4 as stated: mult[i] = number of later rows that name i in idx_a or idx_b,
\* plus 1 per zero_test attached to i, plus 1 for an input row, plus 1 for a
\* witness row.
C4_MultiplicityAsStated ==
    \A i \in Rows :
        At(circuit.mult, i) =
            Cardinality({j \in LaterRows(i) : IdxA(j) = i \/ IdxB(j) = i})
            + Cardinality({h \in HelperRows : IdxA(h) = i})
            + (IF Kind(i) = "input" THEN 1 ELSE 0)
            + (IF Kind(i) = "witness" THEN 1 ELSE 0)

\* C4 (amended): mult[i] = number of input slots of later rows that name i (a
\* zero_test on i counts once, through its helper row's idx_a), plus 2 for row
\* 0, plus 1 for a witness row, plus 1 for a zero_test helper row, and nothing
\* for an input row.
C4_Multiplicity ==
    \A i \in Rows :
        At(circuit.mult, i) =
            SlotRefs(LaterRows(i), i)
            + (IF i = 0 THEN 2 ELSE 0)
            + (IF Kind(i) = "witness" THEN 1 ELSE 0)
            + (IF Kind(i) = "helper" THEN 1 ELSE 0)

\* a consumed input row, a witness row and a zero_test of a row other than
\* row 0 occur together
C4_Witness ==
    /\ \E i \in Rows : Kind(i) = "input" /\ At(circuit.mult, i) >= 1
    /\ \E i \in Rows : Kind(i) = "witness"
    /\ \E h \in HelperRows : IdxA(h) # 0

InputEntries == {circuit.input_maps[j] : j \in 1 .. Len(circuit.input_maps)}

\* how often the pair pr = <<index, value>> is consumed by an input slot
Consumed(pr) ==
    Cardinality({j \in Rows : <<IdxA(j), Out(IdxA(j))>> = pr})
    + Cardinality({j \in Rows : <<IdxB(j), Out(IdxB(j))>> = pr})

\* how often it is produced: mult[i] copies of <<i, out[i]>> and one per entry of input_maps
Produced(pr) ==
    Cardinality({j \in 1 .. Len(circuit.input_maps) : circuit.input_maps[j] = pr})
    + (IF pr[1] \in Rows /\ Out(pr[1]) = pr[2] THEN At(circuit.mult, pr[1]) ELSE 0)

\* the challenges (alpha, z) the logup sum is evaluated at
Challenges == {<<2, 1000>>, <<P - 5, 77777>>, <<0, 5>>}

C5_Multiset ==
    \A pr \in {<<i, Out(i)>> : i \in Rows} \cup InputEntries : Consumed(pr) = Produced(pr)

\* C5: the multiset of consumed slots equals the rows weighted by mult plus the
\* entries of input_maps, and is_logup_satisfied(input_maps) is true for every
\* alpha, z at which no denominator is zero.
C5_LogupIdentity ==
    /\ C5_Multiset
    /\ \A ch \in Challenges :
          0 \notin LogupDenominators(circuit, circuit.input_maps, ch[1], ch[2])
          => is_logup_satisfied(circuit, circuit.input_maps, ch[1], ch[2])

\* a padded circuit with an input row, and a zero_test on a non-zero row
C5_Witness ==
    /\ last.op = "pad_to_next_power_of_2"
    /\ Len(circuit.input_maps) >= 1
    /\ \E h \in HelperRows : Out(IdxA(h)) # 0
    /\ \E ch \in Challenges :
          /\ ch[1] # 0
          /\ 0 \notin LogupDenominators(circuit, circuit.input_maps, ch[1], ch[2])

IsPowerOfTwo(n) == n >= 1 /\ next_power_of_two(n) = n

\* C7: after pad_to_next_power_of_2 on n >= 1 rows, num_rows is the smallest
\* power of two >= n.
C7_PaddingTarget ==
    last.op = "pad_to_next_power_of_2" =>
        /\ IsPowerOfTwo(circuit.num_rows)
        /\ circuit.num_rows = next_power_of_two(last.arg)

ConstRows(k) == {i \in Rows : Kind(i) = "const" /\ At(circuit.op, i) = k}

C8_Cache ==
    /\ \A k1 \in DOMAIN circuit.constant_maps, k2 \in DOMAIN circuit.constant_maps :
          k1 # k2 => circuit.constant_maps[k1] # circuit.constant_maps[k2]
    /\ \A k \in DOMAIN circuit.constant_maps : ConstRows(k) = {circuit.constant_maps[k]}
    /\ \A k \in Vals \ DOMAIN circuit.constant_maps : ConstRows(k) = {}
    /\ last.op = "new_constant" =>
          /\ last.arg \in DOMAIN circuit.constant_maps
          /\ last.r = circuit.constant_maps[last.arg]

C8_SecondCall ==
    (last'.op = "new_constant" /\ last'.arg \in DOMAIN circuit.constant_maps) =>
        /\ circuit' = circuit
        /\ last'.r = circuit.constant_maps[last'.arg]

\* C8: a repeated new_constant(k) returns the row of the first call and changes
\* nothing; different constants get different rows; each constant requested
\* occupies exactly one row.
C8_ConstantCaching == [](C8_Cache) /\ [][C8_SecondCall]_vars

\* two constants are cached and new_constant has just returned a row that is
\* not the last one: a cache hit
C8_Witness ==
    /\ last.op = "new_constant"
    /\ Cardinality(DOMAIN circuit.constant_maps) >= 2
    /\ last.r # circuit.num_rows - 1

\* C9: Circuit::new returns row 0 holding 0 and row 1 holding 1, with
\* mult[0] = 0 and mult[1] = 2, and out[0] = 0, out[1] = 1 in every later state.
C9_BootstrapRows ==
    /\ circuit.num_rows >= 2
    /\ Out(0) = 0
    /\ Out(1) = 1
    /\ last.op = "new" => At(circuit.mult, 0) = 0 /\ At(circuit.mult, 1) = 2

(***************************************************************************)
(* Properties of generate_circuit (specifications SpecGen and SpecTamper). *)
(***************************************************************************)
RECURSIVE LCValue(_, _)
\* <lc, x>: the sum of coeff * x[idx] over the terms of lc
LCValue(lc, x) ==
    IF lc = <<>> THEN 0
    ELSE FAdd(LCValue(SubSeq(lc, 1, Len(lc) - 1), x),
              FMul(lc[Len(lc)][1], At(x, lc[Len(lc)][2])))

\* (A.x) * (B.x) = (C.x) for the constraint con = <<a, b, c>>
ConstraintHolds(con, x) ==
    FMul(LCValue(con[1], x), LCValue(con[2], x)) = LCValue(con[3], x)

\* the PROVE-mode assignment satisfies every constraint consumed
R1CSSatisfied ==
    \A i \in 1 .. Len(matrices) : ConstraintHolds(matrices[i], allocator.assignments)

\* C1: in PROVE mode, if the assignment satisfies every constraint, then
\* is_constraint_satisfied is true of the circuit generate_circuit returns.
C1_LocalSoundness ==
    (pc = "done" /\ R1CSSatisfied) => is_constraint_satisfied(circuit)

\* C2: in PROVE mode, if the assignment violates some constraint, then
\* is_constraint_satisfied is false of the circuit generate_circuit returns.
C2_InconsistentRejected ==
    (pc = "done" /\ ~R1CSSatisfied) => ~is_constraint_satisfied(circuit)

LogupHolds(ch) == is_logup_satisfied(circuit, circuit.input_maps, ch[1], ch[2])

\* the challenges at which every denominator of the logup sum can be inverted
UsableChallenges ==
    {ch \in Challenges :
        0 \notin LogupDenominators(circuit, circuit.input_maps, ch[1], ch[2])}

\* C6 as stated: after the overwrite of output_wires[k], k > 1, mult[k] >= 1, on
\* a circuit generated from a satisfying witness, is_logup_satisfied(input_maps)
\* is false.
C6_TamperingAsStated ==
    (pc = "tampered" /\ R1CSSatisfied) =>
        \A ch \in UsableChallenges : ch[1] # 0 => ~LogupHolds(ch)

\* C6 (amended): after that overwrite, is_logup_satisfied(input_maps) is false
\* (for alpha # 0) when row k is an input row, recorded in input_maps with its
\* old value, and is still true when row k is any other row.
C6_Tampering ==
    (pc = "tampered" /\ R1CSSatisfied) =>
        \A ch \in UsableChallenges :
            IF At(circuit.kind, last.arg) = "input"
            THEN ch[1] # 0 => ~LogupHolds(ch)
            ELSE LogupHolds(ch)

\* an input row consumed by a constraint has been overwritten, and a challenge
\* with alpha # 0 is usable
C6_Witness ==
    /\ pc = "tampered"
    /\ R1CSSatisfied
    /\ Len(matrices) >= 1
    /\ At(circuit.kind, last.arg) = "input"
    /\ \E ch \in UsableChallenges : ch[1] # 0

\* C10: num_rows, op, idx_a, idx_b and mult are the same for the PROVE-mode
\* assignment and for the all-zero assignment of INDEX mode, on the same matrices.
C10_StructureIndependent ==
    /\ circuit.num_rows = index_run.c.num_rows
    /\ circuit.op = index_run.c.op
    /\ circuit.idx_a = index_run.c.idx_a
    /\ circuit.idx_b = index_run.c.idx_b
    /\ circuit.mult = index_run.c.mult

\* two constraints lowered, one of them by inlining, with a cached constant and
\* output wires that differ between the two modes
C10_Witness ==
    /\ pc = "done"
    /\ Len(matrices) >= 2
    /\ circuit.output_wires # index_run.c.output_wires
    /\ DOMAIN circuit.constant_maps # {}
    /\ \E v \in DOMAIN allocator.mapping :
          At(circuit.kind, allocator.mapping[v]) = "row"

(***************************************************************************)
(* Properties of witness_read (specification SpecWtns).                    *)
(***************************************************************************)
\* the n bytes at offset off of the stream, <<>> when the stream is too short
FieldAt(off, n) ==
    IF off + n <= Len(reader.stream) THEN SubSeq(reader.stream, off + 1, off + n)
    ELSE <<>>

\* the fixed header fields of the .wtns layout: offset, width, required bytes
HeaderFields ==
    {<<0, 4, <<119, 116, 110, 115>>>>, <<4, 4, LittleEndian(2, 4)>>,
     <<8, 4, LittleEndian(2, 4)>>, <<12, 4, LittleEndian(1, 4)>>,
     <<16, 8, LittleEndian(16, 8)>>, <<24, 4, LittleEndian(8, 4)>>,
     <<28, 8, LittleEndian(P, 8)>>, <<40, 4, LittleEndian(2, 4)>>,
     <<44, 8, SectionLength(FieldAt(36, 4))>>}

\* the fields that are in the stream and differ from what the layout requires
Deviating == {f \in HeaderFields : FieldAt(f[1], f[2]) # <<>> /\ FieldAt(f[1], f[2]) # f[3]}

AllMatch == \A f \in HeaderFields : FieldAt(f[1], f[2]) = f[3]

RECURSIVE U64ModP(_)
\* the u64 with the little-endian bytes b, modulo P
U64ModP(b) ==
    IF b = <<>> THEN 0 ELSE FAdd(FMul(U64ModP(Tail(b)), 256), Head(b))

\* C11: every value witness_read returns is the stored u64 modulo 2^31 - 1.
C11_ReducedModP ==
    (pc = "returned" /\ reader.result.tag = "Ok") =>
        \A i \in 1 .. Len(reader.result.witnesses) :
            reader.result.witnesses[i] = U64ModP(FieldAt(52 + 8 * (i - 1), 8))

\* C12: witness_read returns InvalidData whenever a fixed header field deviates,
\* and Ok, with exactly W values, only when all of them match.
C12_HeaderValidation ==
    pc = "returned" =>
        /\ Deviating # {} => reader.result = [tag |-> "Err", kind |-> "InvalidData"]
        /\ reader.result.tag = "Ok" =>
              /\ AllMatch
              /\ LittleEndian(Len(reader.result.witnesses), 4) = FieldAt(36, 4)

\* a stream of two values whose only deviating field is the length of section
\* 2 has been rejected
C12_Witness ==
    /\ pc = "returned"
    /\ Deviating = {<<44, 8, SectionLength(FieldAt(36, 4))>>}
    /\ FieldAt(36, 4) = LittleEndian(2, 4)
    /\ reader.result = [tag |-> "Err", kind |-> "InvalidData"]

(***************************************************************************)
(* Properties of the allocator and the processors (SpecGen, SpecCalls).    *)
(***************************************************************************)
\* instance variable i is bound to row i + 1, an input row carrying its
\* assigned value, and the circuit c has no other input row
InstanceLayout(c, al) ==
    /\ \A i \in 0 .. NumInst - 1 : i \in DOMAIN al.mapping /\ al.mapping[i] = i + 1
    /\ c.input_maps = [i \in 1 .. NumInst |-> <<i, al.assignments[i]>>]
    /\ \A r \in 0 .. c.num_rows - 1 : At(c.kind, r) = "input" <=> r \in 1 .. NumInst
    /\ \A v \in DOMAIN al.mapping : al.mapping[v] \in 0 .. c.num_rows - 1

C13_Layout ==
    pc \in {"loop", "done"} =>
        InstanceLayout(circuit, allocator) /\ InstanceLayout(index_run.c, index_run.al)

\* from the circuit c and allocator al to c2 and al2: a binding made stays,
\* and each new witness row is the binding of a variable unbound before
BindingsKept(c, al, c2, al2) ==
    /\ \A v \in DOMAIN al.mapping : v \in DOMAIN al2.mapping /\ al2.mapping[v] = al.mapping[v]
    /\ \A r \in c.num_rows .. c2.num_rows - 1 :
          At(c2.kind, r) = "witness" =>
              \E v \in DOMAIN al2.mapping \ DOMAIN al.mapping :
                  v >= NumInst /\ al2.mapping[v] = r

C13_Bindings ==
    pc = "loop" =>
        /\ BindingsKept(circuit, allocator, circuit', allocator')
        /\ BindingsKept(index_run.c, index_run.al, index_run'.c, index_run'.al)

\* C13: the instance variables are bound in order to the input rows made before
\* the first constraint, no input row is made later, and the binding of a
\* variable, to a new witness row or by inlining, never changes.
C13_VariableLayout == [](C13_Layout) /\ [][C13_Bindings]_vars

\* a consumed input row, a variable bound to a witness row and a variable
\* bound by inlining to a computed row
C13_Witness ==
    /\ pc = "done"
    /\ \E i \in 1 .. NumInst : At(circuit.mult, i) >= 1
    /\ \E v \in DOMAIN allocator.mapping, w \in DOMAIN allocator.mapping :
          /\ At(circuit.kind, allocator.mapping[v]) = "witness"
          /\ At(circuit.kind, allocator.mapping[w]) = "row"

\* every bound variable's row holds the value the assignment gives the variable
Faithful(c, al) ==
    \A v \in DOMAIN al.mapping : At(c.output_wires, al.mapping[v]) = At(al.assignments, v)

\* C14: in PROVE mode, with the rows of the bound variables holding their
\* assigned values, the row reduce_coefs returns holds the sum of
\* coeff * x[var] over the terms of the linear combination.
C14_ReduceCoefsValue ==
    (last.op = "reduce_coefs" /\ Faithful(circuit, allocator)) =>
        Out(last.r) = LCValue(last.arg, allocator.assignments)

\* the classification as the claim states it
StatedType(row) ==
    LET k == ConstantPart(row)
    IN  IF \E i \in 1 .. Len(row) : row[i][2] # 0 /\ row[i][1] # 0
        THEN [tag |-> "VARIABLE", k |-> 0]
        ELSE IF k # 0 THEN [tag |-> "CONSTANT", k |-> k]
        ELSE [tag |-> "NULLABLE", k |-> 0]

C16_Classification ==
    last.op = "get_linear_combination_type" => last.r = StatedType(last.arg)

\* a step of the loop of generate_circuit on a constraint whose a_row or b_row
\* is NULLABLE does what process_r1cs_addition_constraint does on c_row
C16_Dispatch ==
    (pc = "loop" /\ Len(matrices') = Len(matrices) + 1) =>
        LET con == matrices'[Len(matrices')]
        IN  (StatedType(con[1]).tag = "NULLABLE" \/ StatedType(con[2]).tag = "NULLABLE")
            => [c |-> circuit', al |-> allocator'] =
                   process_r1cs_addition_constraint([c |-> circuit, al |-> allocator],
                       sort_linear_combinations(con[3]))

\* C16: get_linear_combination_type returns NULLABLE for rows with no non-zero
\* non-constant term and constant part 0, CONSTANT(k) for such rows with
\* constant part k # 0 and VARIABLE otherwise, and generate_circuit handles a
\* constraint with a NULLABLE a_row or b_row as 0 = c_row.
C16_ClassificationAndDispatch == [](C16_Classification) /\ [][C16_Dispatch]_vars

\* the number of zero_test helper rows of the circuit c
HelperCount(c) == Cardinality({r \in 0 .. c.num_rows - 1 : At(c.kind, r) = "helper"})

\* what the claim states of one emission: from (c1, al1), with other the value
\* of the other side, bound the side that may be inlined and emission the
\* allocator when the emission is reached, to (c2, al2)
EmissionAsStated(c1, al1, c2, al2, other, bound, emission) ==
    IF SingleUnallocated(emission, bound)
    THEN /\ HelperCount(c2) = HelperCount(c1)
         /\ bound[1][2] \in DOMAIN al2.mapping
         /\ FMul(bound[1][1], At(c2.output_wires, al2.mapping[bound[1][2]])) = other
    ELSE /\ HelperCount(c2) = HelperCount(c1) + 1
         /\ At(c2.kind, c2.num_rows - 1) = "helper"
         /\ At(c2.output_wires, At(c2.idx_a, c2.num_rows - 1))
                = FSub(other, LCValue(bound, al1.assignments))

\* the claim on a call of process_r1cs_equal_constraint(a_or_b0, constant0, c0)
EqualAsStated(c1, al1, c2, al2, a_or_b0, constant0, c0) ==
    LET swap  == ~SingleUnallocated(al1, c0) /\ SingleUnallocated(al1, a_or_b0)
        lc    == IF swap THEN c0 ELSE a_or_b0
        k     == IF swap THEN FInv(constant0) ELSE constant0
        bound == IF swap THEN a_or_b0 ELSE c0
    IN  EmissionAsStated(c1, al1, c2, al2, FMul(k, LCValue(lc, al1.assignments)), bound,
                         reduce_coefs([c |-> c1, al |-> al1], lc).al)

\* the claim on a call of process_r1cs_multiplication_constraint(a, b, c)
MultiplicationAsStated(c1, al1, c2, al2, a, b, c) ==
    EmissionAsStated(c1, al1, c2, al2,
        FMul(LCValue(a, al1.assignments), LCValue(b, al1.assignments)), c,
        reduce_coefs(reduce_coefs([c |-> c1, al |-> al1], a), b).al)

C15_Step ==
    (pc = "loop" /\ Len(matrices') = Len(matrices) + 1 /\ Faithful(circuit, allocator)) =>
        LET con == matrices'[Len(matrices')]
            br  == Branch(con[1], con[2])
        IN  CASE br = "equal_a" ->
                   EqualAsStated(circuit, allocator, circuit', allocator', con[2],
                                 get_linear_combination_type(con[1]).k, con[3])
              [] br = "equal_b" ->
                   EqualAsStated(circuit, allocator, circuit', allocator', con[1],
                                 get_linear_combination_type(con[2]).k, con[3])
              [] br = "multiplication" ->
                   MultiplicationAsStated(circuit, allocator, circuit', allocator',
                       sort_linear_combinations(con[1]), sort_linear_combinations(con[2]),
                       sort_linear_combinations(con[3]))
              [] OTHER -> TRUE

\* C15: when the equality or multiplication processor reaches its emission with
\* the bound side a single term (coeff0, var0) on an unallocated variable, it
\* emits no zero_test and binds var0 to a row v with coeff0 * out[v] equal to
\* the value of the other side; otherwise it emits exactly one zero_test, on the
\* row holding the difference of the two sides.
C15_Inlining == [][C15_Step]_vars

\* the rearrangements of the terms of the linear combination lc
Rearranged(lc) == {[i \in 1 .. Len(lc) |-> lc[p[i]]] : p \in Permutations(1 .. Len(lc))}

C17_Step ==
    (pc = "loop" /\ Len(matrices') = Len(matrices) + 1) =>
        LET con == matrices'[Len(matrices')]
        IN  \A a \in Rearranged(con[1]), b \in Rearranged(con[2]), c \in Rearranged(con[3]) :
                ProcessConstraint([c |-> circuit, al |-> allocator], a, b, c).c = circuit'

\* C17: in every branch of generate_circuit the linear combinations are sorted
\* by variable index before they are processed, so the rows emitted for a
\* constraint do not change when the terms inside its matrix rows are permuted.
C17_SortedEmission == [][C17_Step]_vars

====
